---- MODULE Spec2Model ----
(***************************************************************************)
(* Model of the kode-review indexer (src/indexer/docker): the full         *)
(* indexer (indexer.py), the incremental indexer (incremental.py), the     *)
(* graph builders (import_graph.py, call_graph.py, cocoindex_flow.py) and  *)
(* the chunker (ast_chunker.py), over an abstract relational store.        *)
(***************************************************************************)
EXTENDS Integers, Sequences, FiniteSets, TLC

\* ------------------------------------------------------------------------
\* Bounds of the model
\* ------------------------------------------------------------------------

\* rows the chunks table may ever have been given an id for
MaxId == 2

\* entries of one change list
MaxChanges == 1

\* files of one batch of modified files in which a file may fail
MaxBatch == 2

\* lines of a file given to the chunker
MaxLines == 3

\* top-level semantic units of a file given to the chunker
MaxUnits == 2

\* import edges of a file_imports table read by a query
MaxEdges == 4

\* largest max_cycle_length a query is made with
MaxCycleLength == 2

\* chunks of a store a call-graph query is made on
MaxQueryChunks == 3

\* calls relationships of a store a call-graph query is made on
MaxCallEdges == 2

\* largest limit a call-graph query is made with
MaxLimit == 2

\* largest depth a call-graph query is made with
MaxDepth == 2

\* chunks a search may return
MaxHits == 3

\* largest weight of a ranking in a hybrid search
MaxWeight == 2

\* entries of a chunk's symbol_names
MaxSymbols == 2

\* chunks of a store the relationship export is run on
MaxRelChunks == 2

\* largest exact-match multiplier of a keyword search
MaxBoost == 3

\* chunks of a store the call-graph builder is run on
MaxStoredChunks == 3

\* ------------------------------------------------------------------------
\* Repositories, paths, file contents
\* ------------------------------------------------------------------------

\* (repo_id, branch) pairs that are indexed into the store
RepoBranches == {"r1"}

\* relative paths of the working copy, in scan order
PathOrder == <<"a.ts", "b.ts", "x.bin">>

RealPaths == {PathOrder[i] : i \in 1..Len(PathOrder)}

\* Path(p).suffix.lower() of the paths of the working copy
RealSuffix == [p \in RealPaths |-> IF p = "x.bin" THEN ".bin" ELSE ".ts"]

INCLUDE_EXTENSIONS ==
    {".ts", ".tsx", ".js", ".jsx", ".py", ".rs", ".go", ".java",
     ".c", ".cpp", ".h", ".hpp", ".rb", ".php", ".cs", ".md"}

IndexablePaths == {p \in RealPaths : RealSuffix[p] \in INCLUDE_EXTENSIONS}

\* the renames <<old, new>> a change list may report
Renames == {on \in IndexablePaths \X IndexablePaths : on[1] # on[2]}

\* the text CHANGED_FILES carries after "R:" for a rename, "old->new" (the
\* arrow of the documented form); it is the name of no file
Arrow == [on \in Renames |-> on[1] \o "->" \o on[2]]

ArrowPaths == {Arrow[on] : on \in Renames}

\* Path(p).suffix.lower(): the extension after the last dot, which for
\* "old->new" is the extension of new
Suffix ==
    [p \in RealPaths \cup ArrowPaths |->
        IF p \in RealPaths THEN RealSuffix[p]
        ELSE RealSuffix[(CHOOSE on \in Renames : Arrow[on] = p)[2]]]

\* should_include_file: the paths of the model have no directory part, so
\* the EXCLUDE_DIRS loop never rejects
should_include_file(p) == Suffix[p] \in INCLUDE_EXTENSIONS

\* contents a file of the working copy may have, each of one line:
\*   "none": the file does not exist
\*   "def" : export function foo() { return 1 }
\*   "use" : import { foo } from "./b"; foo()
Contents == {"none", "def", "use"}

\* contents of chunks a store may hold besides:
\*   "defs": export function foo() { return 1 }
\*           export function bar() { return 2 }   (one chunk)
\*   "uses": import { foo, bar } from "./b"; foo(); bar()
\*   "rec" : import foo
\*           def foo(): return foo()
StoredContents == (Contents \ {"none"}) \cup {"defs", "uses", "rec"}

\* contents of chunks of a module that is imported by its name, as the
\* relationship export may read them:
\*   "imp_call" : import foo
\*                foo()
\*   "imp_dot"  : import foo
\*                foo.run()
\*   "imp_space": import foo
\*                x = foo + 1
ImportingContents == {"imp_call", "imp_dot", "imp_space"}

\* the contents the edits give a file: b.ts is the module the others import
ContentsOf(p) == IF p = "b.ts" THEN {"none", "def"} ELSE Contents

\* chunk_code_ast on a content: one chunk per content of the model, and
\* its location "start-end"
Location(v) == "1-1"

SymbolNames(v) ==
    IF v \in {"def", "rec"} THEN {"foo"}
    ELSE IF v = "defs" THEN {"foo", "bar"} ELSE {}

ChunkImports(v) ==
    IF v \in {"use", "uses"} THEN {"./b"}
    ELSE IF v \in ImportingContents \cup {"rec"} THEN {"foo"} ELSE {}

ChunkExports(v) == SymbolNames(v)

\* plain function calls extract_calls_from_code finds in the chunk, in the
\* order of the source
ChunkCalls(v) ==
    IF v \in {"use", "imp_call", "rec"} THEN <<"foo">>
    ELSE IF v = "uses" THEN <<"foo", "bar">> ELSE <<>>

\* "s(" occurs in the chunk's content
ContentHasCallForm(v, s) ==
    \/ s = "foo" /\ v \in {"def", "use", "defs", "uses", "imp_call", "rec"}
    \/ s = "bar" /\ v \in {"defs", "uses"}

\* "s." occurs in the chunk's content
ContentHasDotForm(v, s) == s = "foo" /\ v = "imp_dot"

\* " s " occurs in the chunk's content
ContentHasSpaceForm(v, s) ==
    \/ s = "foo" /\ v \in {"use", "imp_space"}
    \/ s = "bar" /\ v = "uses"

\* len(symbol)
SymbolLen(s) == IF s \in {"foo", "bar"} THEN 3 ELSE 0

\* compute_content_hash: equal contents have equal hashes
compute_content_hash(v) == v

\* ------------------------------------------------------------------------
\* State
\* ------------------------------------------------------------------------

VARIABLES
    wc,              \* working copy: path -> content
    chunks,          \* chunks table: rows [id, rb, file, var]
    code_embeddings, \* legacy table: rows [rb, file, loc]
    files,           \* files table: rows [file, rb], key file
    relationships,   \* relationships table: rows [src, tgt, type, meta]
    file_imports,    \* file_imports table: rows [src, tgt, rb]
    cache,           \* embedding_cache: the content hashes that have a row;
                     \* where the vectors matter (CacheSpec), the rows
    nextId,          \* next id the store gives a chunks row
    last,            \* the run that has just ended: inputs, outcome, and
                     \* the tables as they were when it started
    input,           \* the file the chunker is called with
    pc,              \* where the call of the chunker is
    start,           \* chunk_with_fallback: start of the next window
    out              \* the chunks of the call, in the order of the list

vars == <<wc, chunks, code_embeddings, files, relationships, file_imports,
          cache, nextId, last, input, pc, start, out>>

\* the variables of a call of the chunker
chunker == <<input, pc, start, out>>

tables == <<chunks, code_embeddings, files, relationships, file_imports,
            cache, nextId>>

NoFault == [file |-> "none", stage |-> "read"]

\* no run has ended since the last one was read
NoRun ==
    [op |-> "none", rb |-> "none", source |-> "none", changes |-> <<>>,
     fault |-> NoFault, cacheFail |-> FALSE,
     before |-> [chunks |-> {}, relationships |-> {}, file_imports |-> {}],
     status |-> "none", written |-> {}, built |-> {}, computed |-> {}]

Running == last.op # "none"

\* no file is being chunked
NoInput ==
    [mode |-> "none", total |-> 0, blank |-> {}, units |-> <<>>,
     threshold |-> 0, max_lines |-> 0, overlap_lines |-> 0]

EmptyStore ==
    /\ wc = [p \in RealPaths |-> "none"]
    /\ chunks = {}
    /\ code_embeddings = {}
    /\ files = {}
    /\ relationships = {}
    /\ file_imports = {}
    /\ cache = {}
    /\ nextId = 1
    /\ last = NoRun

Init ==
    /\ EmptyStore
    /\ input = NoInput
    /\ pc = "idle"
    /\ start = 0
    /\ out = <<>>

\* ------------------------------------------------------------------------
\* Helpers over sequences
\* ------------------------------------------------------------------------

Range(s) == {s[i] : i \in 1..Len(s)}

\* the sequences over S of length at most n
SeqsUpTo(S, n) == UNION {[1..k -> S] : k \in 0..n}

Map(f(_), s) == [i \in 1..Len(s) |-> f(s[i])]

\* ------------------------------------------------------------------------
\* The environment: edits of the working copy, the end of a run
\* ------------------------------------------------------------------------

\* only files the indexers read are edited: the others are never opened
EditFile ==
    /\ ~Running
    /\ \E p \in IndexablePaths : \E v \in ContentsOf(p) :
        /\ wc[p] # v
        /\ wc' = [wc EXCEPT ![p] = v]
        /\ UNCHANGED <<tables, last, chunker>>

\* the process of the run exits, its __RESULT__ line has been read
RunExits ==
    /\ Running
    /\ last' = NoRun
    /\ UNCHANGED <<wc, tables, chunker>>

\* ------------------------------------------------------------------------
\* Steps shared by the full and the incremental indexer
\* ------------------------------------------------------------------------

\* the chunk chunk_code returns for a file: the contents of the model are
\* of one line, so each file is one chunk
chunk_code(p, v) == [file |-> p, var |-> v]

\* the scanning loop over the files: a file whose processing raises inside
\* the loop's try block is reported and skipped, the loop goes on with the
\* next file
CollectChunks(fileSeq, w, fault) ==
    Map(LAMBDA p : chunk_code(p, w[p]),
        SelectSeq(fileSeq, LAMBDA p : p # fault.file))

\* the content hashes lookup_cached_embeddings does not find
CacheMisses(c, all_chunks) ==
    {compute_content_hash(all_chunks[i].var) : i \in 1..Len(all_chunks)} \ c

\* store_cached_embeddings without the try around the INSERT: the failure
\* leaves the function and the run
store_cached_embeddings_Propagates(c, hashes, cacheFail) ==
    [cache |-> IF cacheFail THEN c ELSE c \cup hashes, raised |-> cacheFail]

\* store_cached_embeddings: each INSERT is in its own try; one that fails
\* is reported and the loop goes on
store_cached_embeddings(c, hashes, cacheFail) ==
    [cache |-> IF cacheFail THEN c ELSE c \cup hashes, raised |-> FALSE]

\* INSERT INTO chunks (...) without an id column: the store gives each row
\* the next id of its own
InsertChunks(ch, all_chunks, rb, first) ==
    ch \cup {[id |-> first + i - 1, rb |-> rb,
              file |-> all_chunks[i].file, var |-> all_chunks[i].var] :
                 i \in 1..Len(all_chunks)}

\* INSERT INTO code_embeddings ... ON CONFLICT (repo_id, branch, filename,
\* location) DO UPDATE
UpsertLegacy(ce, all_chunks, rb) ==
    LET new == {[rb |-> rb, file |-> all_chunks[i].file,
                 loc |-> Location(all_chunks[i].var)] :
                    i \in 1..Len(all_chunks)}
    IN  {r \in ce : ~\E n \in new :
                        n.rb = r.rb /\ n.file = r.file /\ n.loc = r.loc}
        \cup new

\* INSERT INTO files ... ON CONFLICT (file_path) DO UPDATE SET repo_id, branch
UpsertFiles(fs, paths, rb) ==
    {r \in fs : r.file \notin paths} \cup {[file |-> p, rb |-> rb] : p \in paths}

ChunkFiles(all_chunks) == {all_chunks[i].file : i \in 1..Len(all_chunks)}

\* the chunks lookup_cached_embeddings has no vector for, in list order
chunks_to_embed(c, all_chunks) ==
    SelectSeq(all_chunks, LAMBDA x : compute_content_hash(x.var) \notin c)

\* the batches of the embedding loop: range(0, len(chunks_to_embed), 64)
batch_size == 64

Batches(to_embed) ==
    [b \in 1..((Len(to_embed) + batch_size - 1) \div batch_size) |->
        SubSeq(to_embed, (b - 1) * batch_size + 1,
               IF b * batch_size < Len(to_embed) THEN b * batch_size
               ELSE Len(to_embed))]

\* model.encode(texts) of a batch is called outside every try block: when it
\* raises, the exception leaves the loop over the batches and the function
EncodeRaises(c, all_chunks, fault) ==
    /\ fault.stage = "embed"
    /\ Len(Batches(chunks_to_embed(c, all_chunks))) > 0

\* ------------------------------------------------------------------------
\* Import graph (import_graph.py)
\* ------------------------------------------------------------------------

\* ImportGraphBuilder._get_all_files
AllFiles(fs, rb) == {r.file : r \in {x \in fs : x.rb = rb}}

\* ImportGraphBuilder._resolve_import_path: "./b" from a file of the root
\* directory is b plus one of the known extensions
resolve_import_path(imp, all) ==
    IF imp = "./b" /\ "b.ts" \in all THEN "b.ts" ELSE "none"

\* ImportGraphBuilder.build_import_graph
build_import_graph(ch, fs, rb) ==
    LET all == AllFiles(fs, rb)
    IN  {[src |-> c.file, tgt |-> resolve_import_path(imp, all), rb |-> rb] :
            <<c, imp>> \in {ci \in {x \in ch : x.rb = rb} \X {"./b"} :
                /\ ci[2] \in ChunkImports(ci[1].var)
                /\ resolve_import_path(ci[2], all) # "none"
                /\ resolve_import_path(ci[2], all) # ci[1].file}}

\* ImportGraphBuilder.store_import_graph: returns before the DELETE when
\* there is no edge to store
store_import_graph(fi, edges, rb) ==
    IF edges = {} THEN fi
    ELSE {r \in fi : r.rb # rb} \cup edges

build_and_store_import_graph(fi, ch, fs, rb) ==
    store_import_graph(fi, build_import_graph(ch, fs, rb), rb)

\* ------------------------------------------------------------------------
\* Full index (indexer.py)
\* ------------------------------------------------------------------------

delete_existing_index(ce, rb) == {r \in ce : r.rb # rb}

\* find_files: the files that exist and pass should_include_file, in scan
\* order
find_files(w) ==
    SelectSeq(PathOrder, LAMBDA p : w[p] # "none" /\ should_include_file(p))

\* what a run records of the state it started from
Before == [chunks |-> chunks, relationships |-> relationships,
           file_imports |-> file_imports]

\* the write loop of index_repository is outside every try block: the
\* INSERT INTO files of a chunk's file that raises leaves the loop before
\* its commit, and the run
WriteRaises(all_chunks, fault) ==
    /\ fault.stage = "metadata"
    /\ fault.file \in ChunkFiles(all_chunks)

index_repository(rb, fault, cacheFail) ==
    LET all_chunks == CollectChunks(find_files(wc), wc,
                                    IF fault.stage = "metadata"
                                    THEN NoFault ELSE fault)
        n == Len(all_chunks)
        ce0 == delete_existing_index(code_embeddings, rb)
        misses == CacheMisses(cache, all_chunks)
        st == IF misses = {} \/ EncodeRaises(cache, all_chunks, fault)
              THEN [cache |-> cache, raised |-> FALSE]
              ELSE store_cached_embeddings(cache, misses, cacheFail)
        run == [op |-> "full", rb |-> rb, source |-> "none",
                changes |-> <<>>, fault |-> fault, cacheFail |-> cacheFail,
                before |-> Before]
        edges == build_import_graph(chunks', files', rb)
    IN  /\ nextId + n - 1 <= MaxId
        /\ IF n = 0
           THEN /\ code_embeddings' = ce0
                /\ last' = [status |-> "success", written |-> {},
                            built |-> {},
                            computed |-> {}] @@ run
                /\ UNCHANGED <<chunks, files, relationships, file_imports,
                               cache, nextId>>
           ELSE IF \/ st.raised
                   \/ EncodeRaises(cache, all_chunks, fault)
                   \/ WriteRaises(all_chunks, fault)
           THEN /\ code_embeddings' = ce0
                /\ cache' = st.cache
                /\ last' = [status |-> "error", written |-> {},
                            built |-> {},
                            computed |-> {}] @@ run
                /\ UNCHANGED <<chunks, files, relationships, file_imports,
                               nextId>>
           ELSE /\ cache' = st.cache
                /\ code_embeddings' = UpsertLegacy(ce0, all_chunks, rb)
                /\ files' = UpsertFiles(files, ChunkFiles(all_chunks), rb)
                /\ chunks' = InsertChunks(chunks, all_chunks, rb, nextId)
                /\ nextId' = nextId + n
                /\ file_imports' =
                       build_and_store_import_graph(file_imports, chunks',
                                                    files', rb)
                /\ last' = [status |-> "success",
                            written |-> nextId..(nextId + n - 1),
                            built |-> {"import"}, computed |-> edges] @@ run
                /\ UNCHANGED relationships
        /\ UNCHANGED <<wc, chunker>>

\* the embedding call of a batch fails
EmbedFault == [file |-> "none", stage |-> "embed"]

\* the files an indexer may fail on: one of the files it reads, or none
Faults(w) ==
    {NoFault} \cup
    {[file |-> p, stage |-> s] :
        <<p, s>> \in {q \in IndexablePaths : w[q] # "none"}
                     \X {"read", "metadata", "chunk"}}

\* a full index in which every file is read and chunked and the cache
\* accepts every row
FullIndex ==
    /\ ~Running
    /\ \E rb \in RepoBranches : index_repository(rb, NoFault, FALSE)

\* a full index in which a file cannot be processed, or the cache rejects
\* the rows
FullIndexFaulty ==
    /\ ~Running
    /\ \E rb \in RepoBranches, fault \in Faults(wc) \cup {EmbedFault},
          cacheFail \in BOOLEAN :
        /\ fault.stage \in {"read", "metadata", "embed"}
        /\ (fault = NoFault) = cacheFail
        /\ fault = EmbedFault =>
               EncodeRaises(cache, CollectChunks(find_files(wc), wc, NoFault),
                            fault)
        /\ index_repository(rb, fault, cacheFail)

\* ------------------------------------------------------------------------
\* Change detection (incremental.py)
\* ------------------------------------------------------------------------

NoPath == "none"

\* the entries CHANGED_FILES may carry: a status letter and the text after
\* the colon; st = "" is an entry without a prefix
EnvEntries ==
    {[st |-> x[1], p1 |-> x[2], p2 |-> NoPath] :
        x \in {"A", "M", "D", ""} \X IndexablePaths}
    \cup {[st |-> "M", p1 |-> "x.bin", p2 |-> NoPath]}
    \cup {[st |-> "R", p1 |-> Arrow[on], p2 |-> NoPath] : on \in Renames}

\* the lines of git diff --name-status: status, path, and for a rename the
\* new path
GitEntries ==
    {[st |-> x[1], p1 |-> x[2], p2 |-> NoPath] :
        x \in {"A", "M", "D"} \X {"a.ts"}}
    \cup {[st |-> "R", p1 |-> on[1], p2 |-> on[2]] : on \in Renames}

\* get_changed_files_from_env: the text after the colon is the path,
\* whatever the status letter; old_path is never set
get_changed_files_from_env(raw) ==
    Map(LAMBDA e : [path |-> e.p1,
                    change_type |-> IF e.st = "" THEN "M" ELSE e.st,
                    old_path |-> NoPath], raw)

\* get_changed_files_from_git: for R the line is status, old, new
get_changed_files_from_git(raw) ==
    Map(LAMBDA e : IF e.st = "R"
                   THEN [path |-> e.p2, change_type |-> "R",
                         old_path |-> e.p1]
                   ELSE [path |-> e.p1, change_type |-> e.st,
                         old_path |-> NoPath], raw)

\* detect_changed_files that takes an empty change list for "everything
\* changed"
detect_changed_files_AllOnEmpty(source, raw) ==
    IF raw = <<>>
    THEN Map(LAMBDA q : [path |-> q, change_type |-> "M",
                         old_path |-> NoPath],
             SelectSeq(PathOrder, LAMBDA q : q \in IndexablePaths))
    ELSE IF source = "env" THEN get_changed_files_from_env(raw)
    ELSE get_changed_files_from_git(raw)

\* detect_changed_files: the environment list when it has entries, else git
detect_changed_files(source, raw) ==
    IF source = "env" THEN get_changed_files_from_env(raw)
    ELSE get_changed_files_from_git(raw)

PathOf(c) == c.path

OldPathOf(c) == c.old_path

\* the categories of run_incremental_indexing
added_files(changes) ==
    Map(PathOf, SelectSeq(changes, LAMBDA c : c.change_type \in {"A", "R"}))

modified_files(changes) ==
    Map(PathOf, SelectSeq(changes, LAMBDA c : c.change_type = "M"))

\* deleted entries, and the old path of a rename that has one
deleted_files(changes) ==
    Map(LAMBDA c : IF c.change_type = "D" THEN c.path ELSE c.old_path,
        SelectSeq(changes, LAMBDA c :
            \/ c.change_type = "D"
            \/ c.change_type = "R" /\ c.old_path # NoPath))

filter_indexable(fs) == SelectSeq(fs, should_include_file)

\* (Path(REPO_PATH) / f).exists()
Exists(w, p) == p \in RealPaths /\ w[p] # "none"

\* ------------------------------------------------------------------------
\* Incremental index (incremental.py)
\* ------------------------------------------------------------------------

\* the ids delete_file_chunks selects
ChunkIdsOfFiles(ch, paths, rb) ==
    {c.id : c \in {x \in ch : x.rb = rb /\ x.file \in paths}}

\* a DELETE FROM relationships that looks at the source chunk only
DeleteRelationshipsOf_SourceOnly(rels, ids) ==
    {r \in rels : r.src \notin ids}

\* delete_file_chunks: relationships, then chunks, then the legacy rows
DeleteRelationshipsOf(rels, ids) ==
    {r \in rels : r.src \notin ids /\ r.tgt \notin ids}

\* a DELETE FROM chunks that leaves the rows of a file that still exists
DeleteChunksOfFiles_KeepsExisting(ch, paths, rb) ==
    {c \in ch : ~(c.rb = rb /\ c.file \in paths /\ wc[c.file] = "none")}

DeleteChunksOfFiles(ch, paths, rb) ==
    {c \in ch : ~(c.rb = rb /\ c.file \in paths)}

DeleteLegacyOfFiles(ce, paths, rb) ==
    {r \in ce : ~(r.rb = rb /\ r.file \in paths)}

\* delete_file_metadata: the file_imports rows touching the files, then
\* the files rows
DeleteFileImportsOf(fi, paths, rb) ==
    {r \in fi : ~(r.rb = rb /\ (r.src \in paths \/ r.tgt \in paths))}

DeleteFilesRows(fs, paths, rb) ==
    {r \in fs : ~(r.rb = rb /\ r.file \in paths)}

\* the files update_file_metadata has recorded: those read, and recorded,
\* without error
MetadataWritten(fileSeq, fault) ==
    {p \in Range(fileSeq) : ~(p = fault.file /\ fault.stage # "chunk")}

run_incremental_indexing(rb, source, raw, fault, cacheFail) ==
    LET changes == detect_changed_files(source, raw)
        added == filter_indexable(added_files(changes))
        modified == filter_indexable(modified_files(changes))
        deleted == filter_indexable(deleted_files(changes))
        files_to_reindex == added \o modified
        files_to_delete == deleted \o modified
        ids == ChunkIdsOfFiles(chunks, Range(files_to_delete), rb)
        rels1 == DeleteRelationshipsOf(relationships, ids)
        chunks1 == DeleteChunksOfFiles(chunks, Range(files_to_delete), rb)
        ce1 == DeleteLegacyOfFiles(code_embeddings, Range(files_to_delete), rb)
        fi1 == DeleteFileImportsOf(file_imports, Range(deleted), rb)
        files1 == DeleteFilesRows(files, Range(deleted), rb)
        file_paths == SelectSeq(files_to_reindex, LAMBDA p : Exists(wc, p))
        all_chunks == CollectChunks(file_paths, wc, fault)
        n == Len(all_chunks)
        files2 == UpsertFiles(files1, MetadataWritten(file_paths, fault), rb)
        misses == CacheMisses(cache, all_chunks)
        st == IF misses = {} \/ EncodeRaises(cache, all_chunks, fault)
              THEN [cache |-> cache, raised |-> FALSE]
              ELSE store_cached_embeddings(cache, misses, cacheFail)
        run == [op |-> "incremental", rb |-> rb, source |-> source,
                changes |-> raw, fault |-> fault, cacheFail |-> cacheFail,
                before |-> Before]
        edges == build_import_graph(chunks', files', rb)
    IN  /\ nextId + n - 1 <= MaxId
        /\ UNCHANGED <<wc, chunker>>
        /\ IF Len(changes) = 0
           THEN /\ last' = [status |-> "success", written |-> {},
                            built |-> {},
                            computed |-> {}] @@ run
                /\ UNCHANGED tables
           ELSE IF n > 0 /\ (st.raised \/ EncodeRaises(cache, all_chunks, fault))
           THEN /\ relationships' = rels1
                /\ chunks' = chunks1
                /\ code_embeddings' = ce1
                /\ file_imports' = fi1
                /\ files' = files2
                /\ cache' = st.cache
                /\ last' = [status |-> "error", written |-> {},
                            built |-> {},
                            computed |-> {}] @@ run
                /\ UNCHANGED nextId
           ELSE /\ relationships' = rels1
                /\ files' = files2
                /\ cache' = IF n = 0 THEN cache ELSE st.cache
                /\ code_embeddings' = UpsertLegacy(ce1, all_chunks, rb)
                /\ chunks' = InsertChunks(chunks1, all_chunks, rb, nextId)
                /\ nextId' = nextId + n
                /\ file_imports' =
                       IF Len(files_to_reindex) > 0
                       THEN build_and_store_import_graph(fi1, chunks',
                                                         files', rb)
                       ELSE fi1
                /\ last' = [status |-> "success",
                            written |-> nextId..(nextId + n - 1),
                            built |-> IF Len(files_to_reindex) > 0
                                      THEN {"import"} ELSE {},
                            computed |-> IF Len(files_to_reindex) > 0
                                         THEN edges ELSE {}] @@ run

\* a run whose files are all read and chunked and whose cache accepts every
\* row: CHANGED_FILES with entries, or else the lines of git diff (which
\* may be none)
IncrementalIndex ==
    /\ ~Running
    /\ \E rb \in RepoBranches, source \in {"env", "git"} :
        \E raw \in SeqsUpTo(IF source = "env" THEN EnvEntries
                            ELSE GitEntries, MaxChanges) :
            /\ source = "env" => Len(raw) > 0
            /\ run_incremental_indexing(rb, source, raw, NoFault, FALSE)

\* the entries of a batch of modified files
ModifiedEntries ==
    {[st |-> "M", p1 |-> p, p2 |-> NoPath] : p \in IndexablePaths}

\* the files of a change list index_files_incrementally is called with
FilePathsOf(raw) ==
    LET changes == detect_changed_files("env", raw)
    IN  SelectSeq(filter_indexable(added_files(changes))
                      \o filter_indexable(modified_files(changes)),
                  LAMBDA p : Exists(wc, p))

\* a run over a batch of modified files in which a file cannot be
\* processed, or the embedding call fails, or the cache rejects the rows
IncrementalIndexFaulty ==
    /\ ~Running
    /\ \E rb \in RepoBranches, fault \in Faults(wc) \cup {EmbedFault},
          cacheFail \in BOOLEAN :
        \E raw \in SeqsUpTo(ModifiedEntries, MaxBatch) :
            /\ Len(raw) > 0
            /\ (fault = NoFault) = cacheFail
            /\ fault.file # "none" =>
                   \E i \in 1..Len(raw) : raw[i].p1 = fault.file
            /\ fault = EmbedFault =>
                   EncodeRaises(cache, CollectChunks(FilePathsOf(raw), wc,
                                                     NoFault), fault)
            /\ run_incremental_indexing(rb, "env", raw, fault, cacheFail)

\* ------------------------------------------------------------------------
\* Relationship export (cocoindex_flow.py)
\* ------------------------------------------------------------------------

ChunksOf(ch, rb) == {c \in ch : c.rb = rb}

IdsOf(cs) == {c.id : c \in cs}

\* the names a chunk offers in export_map: its symbol_names, and its
\* exports other than "* from ..." re-exports (none in the contents here)
Exported(v) == SymbolNames(v) \cup ChunkExports(v)

\* one row per (source, target, type): the first one emitted is kept
Dedupe(rs) ==
    {r \in rs : r = CHOOSE q \in rs :
                        q.src = r.src /\ q.tgt = r.tgt /\ q.type = r.type}

\* the imports edges of extract_relationships
ImportsEdges(cs) ==
    {[src |-> x[1].id, tgt |-> x[2].id, type |-> "imports", meta |-> x[3]] :
        x \in {y \in cs \X cs \X {"./b", "foo"} :
                  /\ y[3] \in ChunkImports(y[1].var)
                  /\ y[3] \in Exported(y[2].var)
                  /\ y[2].id # y[1].id}}

\* the references edges of extract_relationships; the condition is the
\* code's: (not existing and "s(" in content) or "s." in content
\* or " s " in content
ReferencesEdges(cs, imps) ==
    {[src |-> x[2].id, tgt |-> x[1].id, type |-> "references",
      meta |-> x[3]] :
        x \in {y \in cs \X cs \X {"foo", "bar"} :
                  /\ y[3] \in SymbolNames(y[1].var)
                  /\ SymbolLen(y[3]) >= 3
                  /\ y[2].id # y[1].id
                  /\ LET existing == \E r \in imps :
                             r.src = y[2].id /\ r.tgt = y[1].id
                     IN  \/ ~existing /\ ContentHasCallForm(y[2].var, y[3])
                         \/ ContentHasDotForm(y[2].var, y[3])
                         \/ ContentHasSpaceForm(y[2].var, y[3])}}

extract_relationships(cs) ==
    LET imps == ImportsEdges(cs)
    IN  Dedupe(imps \cup ReferencesEdges(cs, imps))

\* SELECT COUNT(*) FROM chunks WHERE id = src OR id = tgt, >= 2
BothExist(ch, e) ==
    Cardinality({c \in ch : c.id = e.src \/ c.id = e.tgt}) >= 2

\* INSERT ... ON CONFLICT (source, target, type) DO UPDATE SET metadata
UpsertRelationships(rels, new) ==
    {r \in rels : ~\E n \in new :
                      n.src = r.src /\ n.tgt = r.tgt /\ n.type = r.type}
    \cup new

\* export_relationships_to_postgres: returns before the DELETE when there
\* are no chunks or no relationship was extracted; the DELETE is by source
\* chunk, whatever the relationship type
export_relationships_to_postgres(rels, ch, rb) ==
    LET cs == ChunksOf(ch, rb)
        new == extract_relationships(cs)
    IN  IF cs = {} \/ new = {} THEN rels
        ELSE UpsertRelationships(
                 {r \in rels : r.src \notin IdsOf(cs)},
                 {e \in new : BothExist(ch, e)})

ExportRelationships ==
    /\ ~Running
    /\ \E rb \in RepoBranches :
        /\ relationships' = export_relationships_to_postgres(relationships,
                                                             chunks, rb)
        /\ last' = [op |-> "export", rb |-> rb, source |-> "none",
                    changes |-> <<>>, fault |-> NoFault,
                    cacheFail |-> FALSE, before |-> Before,
                    status |-> "success", written |-> {},
                    built |-> {"relationships"},
                    computed |-> extract_relationships(ChunksOf(chunks, rb))]
        /\ UNCHANGED <<wc, chunks, code_embeddings, files, file_imports,
                       cache, nextId, chunker>>

\* ------------------------------------------------------------------------
\* Call graph (call_graph.py)
\* ------------------------------------------------------------------------

\* the orders in which SELECT ... FROM chunks (no ORDER BY) may return the
\* rows
LoadOrders(cs) ==
    {o \in [1..Cardinality(cs) -> cs] :
        \A i, j \in 1..Cardinality(cs) : i # j => o[i] # o[j]}

\* CallGraphBuilder._build_symbol_index: the ids of the chunks declaring s,
\* in load order
symbol_index(ord, s) ==
    Map(LAMBDA c : c.id, SelectSeq(ord, LAMBDA c : s \in SymbolNames(c.var)))

\* the first element of seq that satisfies P, or 0
FirstOr0(seq, P(_)) ==
    LET sel == SelectSeq(seq, P) IN IF sel = <<>> THEN 0 ELSE Head(sel)

\* _resolve_call_target without the tests "cid != source_chunk.chunk_id"
resolve_call_target_AllowsSelf(callee, source, ord) ==
    LET target_chunks == symbol_index(ord, callee)
        same_file == SelectSeq(target_chunks, LAMBDA cid :
                        \E i \in 1..Len(ord) :
                            ord[i].id = cid /\ ord[i].file = source.file)
    IN  IF same_file # <<>> THEN Head(same_file)
        ELSE IF target_chunks # <<>> THEN Head(target_chunks) ELSE 0

\* CallGraphBuilder._resolve_call_target for a plain function call: a
\* candidate of the caller's file first, else any candidate, never the
\* caller; 0 when there is none
resolve_call_target(callee, source, ord) ==
    LET target_chunks == symbol_index(ord, callee)
        same_file == SelectSeq(target_chunks, LAMBDA cid :
                        \E i \in 1..Len(ord) :
                            ord[i].id = cid /\ ord[i].file = source.file)
        first_same == FirstOr0(same_file, LAMBDA cid : cid # source.id)
    IN  IF first_same # 0 THEN first_same
        ELSE FirstOr0(target_chunks, LAMBDA cid : cid # source.id)

\* the calls of a chunk that resolve to a target, as edges in the order of
\* the calls
CallEdgesOf(chunk, ord) ==
    Map(LAMBDA callee :
            [src |-> chunk.id, tgt |-> resolve_call_target(callee, chunk, ord),
             type |-> "calls", meta |-> callee],
        SelectSeq(ChunkCalls(chunk.var),
                  LAMBDA callee : resolve_call_target(callee, chunk, ord) # 0))

RECURSIVE AppendUnseen(_, _)
\* "if edge_key not in seen_edges": an edge is kept once per
\* (source, target, callee_name)
AppendUnseen(edges, new) ==
    IF new = <<>> THEN edges
    ELSE AppendUnseen(IF \E i \in 1..Len(edges) : edges[i] = Head(new)
                      THEN edges ELSE Append(edges, Head(new)),
                      Tail(new))

RECURSIVE CallEdgesFrom(_, _, _)
\* the loop of build_call_graph over the chunks
CallEdgesFrom(rest, ord, edges) ==
    IF rest = <<>> THEN edges
    ELSE CallEdgesFrom(Tail(rest), ord,
                       AppendUnseen(edges, CallEdgesOf(Head(rest), ord)))

\* CallGraphBuilder.build_call_graph: the list of the edges
build_call_graph(ord) == CallEdgesFrom(ord, ord, <<>>)

RECURSIVE InsertCallEdges(_, _, _)
\* the loop of store_call_graph over the edges: an edge whose chunks do not
\* both exist is passed over, the others are upserted one after the other
InsertCallEdges(rels, edges, ch) ==
    IF edges = <<>> THEN rels
    ELSE InsertCallEdges(IF BothExist(ch, Head(edges))
                         THEN UpsertRelationships(rels, {Head(edges)})
                         ELSE rels,
                         Tail(edges), ch)

\* CallGraphBuilder.store_call_graph: returns before the DELETE when there
\* is no edge to store
store_call_graph(rels, edges, ch, rb) ==
    IF edges = <<>> THEN rels
    ELSE InsertCallEdges(
             {r \in rels : ~(r.type = "calls"
                             /\ r.src \in IdsOf(ChunksOf(ch, rb)))},
             edges, ch)

\* build_and_store_call_graph
BuildCallGraph ==
    /\ ~Running
    /\ \E rb \in RepoBranches :
        \E ord \in LoadOrders(ChunksOf(chunks, rb)) :
            /\ relationships' =
                   store_call_graph(relationships, build_call_graph(ord),
                                    chunks, rb)
            /\ last' = [op |-> "calls", rb |-> rb, source |-> "none",
                        changes |-> <<>>, fault |-> NoFault,
                        cacheFail |-> FALSE, before |-> Before,
                        status |-> "success", written |-> {},
                        built |-> {"calls"},
                        computed |-> Range(build_call_graph(ord))]
            /\ UNCHANGED <<wc, chunks, code_embeddings, files, file_imports,
                           cache, nextId, chunker>>

\* build_and_store_import_graph, run on its own
BuildImportGraph ==
    /\ ~Running
    /\ \E rb \in RepoBranches :
        /\ file_imports' =
               build_and_store_import_graph(file_imports, chunks, files, rb)
        /\ last' = [op |-> "imports", rb |-> rb, source |-> "none",
                    changes |-> <<>>, fault |-> NoFault,
                    cacheFail |-> FALSE, before |-> Before,
                    status |-> "success", written |-> {},
                    built |-> {"import"},
                    computed |-> build_import_graph(chunks, files, rb)]
        /\ UNCHANGED <<wc, chunks, code_embeddings, files, relationships,
                       cache, nextId, chunker>>

\* the indexers and the graph builders, over sources that can be read and
\* a cache that accepts its rows
Next ==
    \/ EditFile
    \/ RunExits
    \/ FullIndex
    \/ IncrementalIndex
    \/ ExportRelationships
    \/ BuildCallGraph
    \/ BuildImportGraph

Spec == Init /\ [][Next]_vars

\* the indexers, with files that cannot be processed and a cache that
\* rejects its rows
FaultNext ==
    \/ EditFile
    \/ RunExits
    \/ FullIndex
    \/ FullIndexFaulty
    \/ IncrementalIndexFaulty

FaultSpec == Init /\ [][FaultNext]_vars

\* ------------------------------------------------------------------------
\* The chunker (ast_chunker.py)
\* ------------------------------------------------------------------------

\* the line ranges <<first, last>> within lo..hi
Ranges(lo, hi) == {r \in (lo..hi) \X (lo..hi) : r[1] <= r[2]}

Disjoint(r, q) == r[2] < q[1] \/ q[2] < r[1]

\* the function and method definitions nested in a definition: inside it,
\* on lines of their own
ChildSets(lo, hi) ==
    {cs \in SUBSET Ranges(lo, hi) :
        \A r, q \in cs : r # q => Disjoint(r, q)}

\* extract_semantic_units on a definition on the lines r with the
\* definitions nested in it: the nested ones become children of the unit
\* when it is a class, and are not looked for when it is a function
extract_semantic_units(r, node_type, nested) ==
    [start_line |-> r[1], end_line |-> r[2], node_type |-> node_type,
     nested |-> nested,
     children |-> IF node_type = "class" THEN nested ELSE {}]

\* the semantic units extract_semantic_units may yield for a file of n
\* lines: a function or a class, with the definitions nested in it
Units(n) ==
    UNION {{extract_semantic_units(r, node_type, cs) :
               cs \in ChildSets(r[1], r[2]),
               node_type \in {"function", "class"}} : r \in Ranges(1, n)}

UnitsOf == [n \in 1..MaxLines |-> Units(n)]

\* the lists of k top-level units of a file in document order: one ends
\* before the next begins, or on the line where it begins
RECURSIVE UnitSeqsOfLen(_, _)
UnitSeqsOfLen(n, k) ==
    IF k = 0 THEN {<<>>}
    ELSE UNION {{Append(us, u) : u \in
                    {v \in UnitsOf[n] :
                        us = <<>> \/ us[Len(us)].end_line <= v.start_line}} :
                  us \in UnitSeqsOfLen(n, k - 1)}

UnitSeqs(n) == UNION {UnitSeqsOfLen(n, k) : k \in 0..MaxUnits}

\* lines on which a unit or a nested unit ends: they are not blank
EndLines(us) ==
    {us[i].end_line : i \in 1..Len(us)}
    \cup UNION {{c[2] : c \in us[i].nested} : i \in 1..Len(us)}

\* the blank lines a file of n lines with these units may have: not all
\* of its lines
BlankSets(n, us) ==
    {b \in SUBSET ((1..n) \ EndLines(us)) : b # 1..n}

\* a file chunk_with_ast is called with: lines, blank lines, units, and
\* the configured threshold
AstInput(n, us, blank, threshold) ==
    [mode |-> "ast", total |-> n, blank |-> blank, units |-> us,
     threshold |-> threshold, max_lines |-> 0, overlap_lines |-> 0]

\* a file chunk_with_fallback is called with, and the configured window
FallbackInput(n, blank, max_lines, overlap_lines) ==
    [mode |-> "fallback", total |-> n, blank |-> blank, units |-> <<>>,
     threshold |-> 0, max_lines |-> max_lines,
     overlap_lines |-> overlap_lines]

\* ASTNode.line_count
line_count(u) == u[2] - u[1] + 1

\* should_separate_nested
should_separate_nested(nested, threshold) == line_count(nested) >= threshold

\* list.sort(key): the elements by ascending key, equal keys in the order
\* they had
SortBy(seq, Key(_)) ==
    LET n == Len(seq)
        rank(i) == 1 + Cardinality({j \in 1..n :
                         \/ Key(seq[j]) < Key(seq[i])
                         \/ Key(seq[j]) = Key(seq[i]) /\ j < i})
    IN  [k \in 1..n |-> seq[CHOOSE i \in 1..n : rank(i) = k]]

\* a set of disjoint ranges as a list in line order
RECURSIVE InOrder(_)
InOrder(rs) ==
    IF rs = {} THEN <<>>
    ELSE LET r == CHOOSE q \in rs : \A o \in rs :
                      q[1] < o[1] \/ (q[1] = o[1] /\ q[2] <= o[2])
         IN  <<r>> \o InOrder(rs \ {r})

\* the loop of find_uncovered_ranges over the covered ranges
RECURSIVE GapsBefore(_, _)
GapsBefore(covered, current_pos) ==
    IF covered = <<>> THEN [gaps |-> <<>>, current_pos |-> current_pos]
    ELSE LET c == Head(covered)
             next == IF current_pos > c[2] + 1 THEN current_pos ELSE c[2] + 1
             rest == GapsBefore(Tail(covered), next)
         IN  [gaps |-> (IF current_pos < c[1]
                        THEN <<(<<current_pos, c[1] - 1>>)>> ELSE <<>>)
                       \o rest.gaps,
              current_pos |-> rest.current_pos]

\* find_uncovered_ranges without the range after the last unit
find_uncovered_ranges_NoTail(covered, total_lines) ==
    IF covered = <<>> THEN <<(<<1, total_lines>>)>>
    ELSE GapsBefore(covered, 1).gaps

find_uncovered_ranges(covered, total_lines) ==
    IF covered = <<>> THEN <<(<<1, total_lines>>)>>
    ELSE LET l == GapsBefore(covered, 1)
         IN  l.gaps \o (IF l.current_pos <= total_lines
                        THEN <<(<<l.current_pos, total_lines>>)>>
                        ELSE <<>>)

Chunk(s, e, t) == [start_line |-> s, end_line |-> e, chunk_type |-> t]

\* the chunks chunk_with_ast appends for one unit: the nested units of at
\* least the threshold, then the unit itself
UnitChunks(u, threshold) ==
    Map(LAMBDA c : Chunk(c[1], c[2], "nested"),
        SelectSeq(InOrder(u.children),
                  LAMBDA c : should_separate_nested(c, threshold)))
    \o <<Chunk(u.start_line, u.end_line, u.node_type)>>

RECURSIVE AllUnitChunks(_, _)
AllUnitChunks(us, threshold) ==
    IF us = <<>> THEN <<>>
    ELSE UnitChunks(Head(us), threshold) \o AllUnitChunks(Tail(us), threshold)

\* chunk_with_ast: the whole file when there is no unit; else the units,
\* the gaps that are not blank, all sorted by start line
chunk_with_ast(f) ==
    IF f.units = <<>> THEN <<Chunk(1, f.total, "module")>>
    ELSE LET semantic_units == SortBy(f.units, LAMBDA u : u.start_line)
             covered_ranges ==
                 SortBy(SortBy(Map(LAMBDA u : <<u.start_line, u.end_line>>,
                                   semantic_units),
                               LAMBDA r : r[2]),
                        LAMBDA r : r[1])
             gaps == find_uncovered_ranges(covered_ranges, f.total)
             kept == SelectSeq(gaps, LAMBDA g : (g[1]..g[2]) \ f.blank # {})
         IN  SortBy(AllUnitChunks(semantic_units, f.threshold)
                    \o Map(LAMBDA g : Chunk(g[1], g[2], "other"), kept),
                    LAMBDA c : c.start_line)

\* a file is handed to the chunker
ChunkerInit ==
    /\ EmptyStore
    /\ \E n \in 1..MaxLines :
          \/ \E us \in UnitSeqs(n) :
                \E blank \in BlankSets(n, us) :
                  \E threshold \in 1..MaxLines :
                    input = AstInput(n, us, blank, threshold)
          \/ \E blank \in (SUBSET (1..n)) \ {1..n} :
                \E max_lines \in 1..MaxLines :
                  \E overlap_lines \in 0..MaxLines :
                    input = FallbackInput(n, blank, max_lines, overlap_lines)
    /\ pc = "called"
    /\ start = 0
    /\ out = <<>>

\* chunk_code_ast on a file of a supported language
ChunkWithAst ==
    /\ pc = "called"
    /\ input.mode = "ast"
    /\ out' = chunk_with_ast(input)
    /\ pc' = "returned"
    /\ UNCHANGED <<wc, tables, last, input, start>>

\* chunk_with_fallback, a file of at most max_lines lines: one chunk
FallbackWhole ==
    /\ pc = "called"
    /\ input.mode = "fallback"
    /\ input.total <= input.max_lines
    /\ out' = <<Chunk(1, input.total, "other")>>
    /\ pc' = "returned"
    /\ UNCHANGED <<wc, tables, last, input, start>>

\* chunk_with_fallback, a longer file: the loop is entered with start = 0
FallbackEnter ==
    /\ pc = "called"
    /\ input.mode = "fallback"
    /\ input.total > input.max_lines
    /\ start' = 0
    /\ pc' = "loop"
    /\ UNCHANGED <<wc, tables, last, input, out>>

\* one iteration of while start < total_lines; a loop whose start moves
\* forward has at most total_lines iterations, and the model follows no
\* loop beyond MaxLines + 1
FallbackWindow ==
    /\ pc = "loop"
    /\ start < input.total
    /\ Len(out) <= MaxLines
    /\ LET end == IF start + input.max_lines < input.total
                  THEN start + input.max_lines ELSE input.total
       IN  /\ out' = Append(out, Chunk(start + 1, end, "other"))
           /\ start' = IF end < input.total THEN end - input.overlap_lines
                       ELSE input.total
    /\ UNCHANGED <<wc, tables, last, input, pc>>

\* the loop ends, the chunks are returned
FallbackReturn ==
    /\ pc = "loop"
    /\ start >= input.total
    /\ pc' = "returned"
    /\ UNCHANGED <<wc, tables, last, input, start, out>>

ChunkerNext ==
    \/ ChunkWithAst
    \/ FallbackWhole
    \/ FallbackEnter
    \/ FallbackWindow
    \/ FallbackReturn

ChunkerSpec == ChunkerInit /\ [][ChunkerNext]_vars

\* ------------------------------------------------------------------------
\* Import graph queries (import_graph.py)
\* ------------------------------------------------------------------------

\* the files of the import graphs the queries are made on
QueryFiles == {"a.ts", "b.ts", "c.ts"}

\* the contents file_imports may have for a (repo_id, branch): up to
\* MaxEdges rows between files
ImportTables ==
    {t \in SUBSET [src : QueryFiles, tgt : QueryFiles, rb : RepoBranches] :
        /\ Cardinality(t) <= MaxEdges
        /\ \A r \in t : r.src # r.tgt}

\* ImportGraphBuilder.get_import_tree
get_import_tree(fi, rb, file_path, max_depth) ==
    LET rows == {r \in fi : r.rb = rb}
        direct_imports == {r.tgt : r \in {x \in rows : x.src = file_path}}
        direct_importers == {r.src : r \in {x \in rows : x.tgt = file_path}}
    IN  [target_file |-> file_path,
         direct_imports |-> direct_imports,
         direct_importers |-> direct_importers,
         indirect_imports |->
             IF max_depth >= 2 /\ direct_imports # {}
             THEN {r.tgt : r \in {x \in rows :
                      /\ x.src \in direct_imports
                      /\ x.tgt # file_path
                      /\ x.tgt \notin direct_imports}}
             ELSE {},
         indirect_importers |->
             IF max_depth >= 2 /\ direct_importers # {}
             THEN {r.src : r \in {x \in rows :
                      /\ x.tgt \in direct_importers
                      /\ x.src # file_path
                      /\ x.src \notin direct_importers}}
             ELSE {}]

\* the orders in which a SELECT without ORDER BY may return the rows
RowOrders(rows) ==
    {o \in [1..Cardinality(rows) -> rows] :
        \A i, j \in 1..Cardinality(rows) : i # j => o[i] # o[j]}

\* the keys of the adjacency dict, in the order they were inserted
GraphKeys(rows) ==
    LET first == {i \in 1..Len(rows) :
                     \A j \in 1..(i - 1) : rows[j].src # rows[i].src}
    IN  Map(LAMBDA r : r.src,
            SelectSeq([i \in 1..Len(rows) |-> [src |-> rows[i].src,
                                               new |-> i \in first]],
                      LAMBDA r : r.new))

\* graph.get(node, []): the targets of node's rows, in row order
Neighbors(rows, node) ==
    Map(LAMBDA r : r.tgt, SelectSeq(rows, LAMBDA r : r.src = node))

\* index of the first occurrence of x in the list
IndexOf(path, x) == CHOOSE i \in 1..Len(path) :
                        path[i] = x /\ \A j \in 1..(i - 1) : path[j] # x

\* what detect_circular_dependencies keeps while it searches
NoSearch ==
    [visited |-> {}, rec_stack |-> {}, path |-> <<>>, cycles |-> <<>>,
     seen_cycles |-> {}]

\* the branch "elif neighbor in rec_stack" of dfs: a cycle is found
FoundCycle(st, neighbor) ==
    LET cycle_start == IndexOf(st.path, neighbor)
        cycle == Append(SubSeq(st.path, cycle_start, Len(st.path)), neighbor)
        cycle_set == Range(SubSeq(cycle, 1, Len(cycle) - 1))
    IN  IF cycle_set \in st.seen_cycles THEN st
        ELSE [st EXCEPT
                 !.seen_cycles = @ \cup {cycle_set},
                 !.cycles = Append(@,
                     [cycle |-> cycle,
                      cycle_type |-> IF Len(cycle) = 3 THEN "direct"
                                     ELSE "indirect"])]

RECURSIVE dfs(_, _, _, _)
RECURSIVE dfs_neighbors(_, _, _, _)

\* the loop of dfs over the neighbors of a node
dfs_neighbors(nbrs, st, rows, max_cycle_length) ==
    IF nbrs = <<>> THEN st
    ELSE LET neighbor == Head(nbrs)
             st1 == IF neighbor \notin st.visited
                    THEN dfs(neighbor, st, rows, max_cycle_length)
                    ELSE IF neighbor \in st.rec_stack
                    THEN FoundCycle(st, neighbor)
                    ELSE st
         IN  dfs_neighbors(Tail(nbrs), st1, rows, max_cycle_length)

\* dfs of detect_circular_dependencies
dfs(node, st, rows, max_cycle_length) ==
    IF Len(st.path) > max_cycle_length THEN st
    ELSE LET st1 == [st EXCEPT !.visited = @ \cup {node},
                               !.rec_stack = @ \cup {node},
                               !.path = Append(@, node)]
             st2 == dfs_neighbors(Neighbors(rows, node), st1, rows,
                                  max_cycle_length)
         IN  [st2 EXCEPT !.path = SubSeq(@, 1, Len(@) - 1),
                         !.rec_stack = @ \ {node}]

RECURSIVE dfs_from_each(_, _, _, _)
\* "for node in graph: if node not in visited: dfs(node)"
dfs_from_each(nodes, st, rows, max_cycle_length) ==
    IF nodes = <<>> THEN st
    ELSE dfs_from_each(Tail(nodes),
                       IF Head(nodes) \notin st.visited
                       THEN dfs(Head(nodes), st, rows, max_cycle_length)
                       ELSE st,
                       rows, max_cycle_length)

\* ImportGraphBuilder.detect_circular_dependencies on the rows as the
\* SELECT returned them
detect_circular_dependencies(rows, max_cycle_length) ==
    dfs_from_each(GraphKeys(rows), NoSearch, rows, max_cycle_length).cycles

\* a store whose file_imports table has been built, and no query made yet
ImportQueryInit ==
    /\ wc = [p \in RealPaths |-> "none"]
    /\ chunks = {}
    /\ code_embeddings = {}
    /\ files = {}
    /\ relationships = {}
    /\ file_imports \in ImportTables
    /\ cache = {}
    /\ nextId = 1
    /\ last = NoRun
    /\ input = NoInput
    /\ pc = "idle"
    /\ start = 0
    /\ out = <<>>

\* GET /import-tree
GetImportTree ==
    /\ pc = "idle"
    /\ \E rb \in RepoBranches, file_path \in QueryFiles :
        /\ input' = [mode |-> "import_tree", rb |-> rb,
                     file_path |-> file_path]
        /\ out' = get_import_tree(file_imports, rb, file_path, 2)
    /\ pc' = "answered"
    /\ UNCHANGED <<wc, tables, last, start>>

\* GET /circular-dependencies
GetCircularDependencies ==
    /\ pc = "idle"
    /\ \E rb \in RepoBranches, max_cycle_length \in 1..MaxCycleLength :
        \E rows \in RowOrders({r \in file_imports : r.rb = rb}) :
            /\ input' = [mode |-> "cycles", rb |-> rb,
                         max_cycle_length |-> max_cycle_length]
            /\ out' = detect_circular_dependencies(rows, max_cycle_length)
    /\ pc' = "answered"
    /\ UNCHANGED <<wc, tables, last, start>>

ImportQueryNext ==
    \/ GetImportTree
    \/ GetCircularDependencies

ImportQuerySpec == ImportQueryInit /\ [][ImportQueryNext]_vars

\* ------------------------------------------------------------------------
\* Call graph query (main.py)
\* ------------------------------------------------------------------------

\* the contents the chunks table may have for a (repo_id, branch): one chunk
\* per id, of a file that declares foo or of one that calls it
ChunkTables ==
    {{[id |-> i, rb |-> "r1", file |-> t[i][1], var |-> t[i][2]] :
         i \in 1..MaxQueryChunks} :
       t \in [1..MaxQueryChunks -> {"a.ts", "b.ts"} \X {"def", "use"}]}

\* the calls relationships the store may hold between these chunks
CallTables ==
    {t \in SUBSET {[src |-> e[1], tgt |-> e[2], type |-> "calls",
                    meta |-> "foo"] :
                      e \in {x \in (1..MaxQueryChunks) \X (1..MaxQueryChunks) :
                                x[1] # x[2]}} :
        Cardinality(t) <= MaxCallEdges}

\* the chunk with the id
ChunkById(ch, id) == CHOOSE c \in ch : c.id = id

\* the orders in which a SELECT ... ORDER BY file_path, line_start may
\* return the rows: every chunk of the model starts on line 1, rows of the
\* same file come in any order
OrderedByFile(rows, FileOf(_)) ==
    {o \in [1..Cardinality(rows) -> rows] :
        /\ \A i, j \in 1..Cardinality(rows) : i # j => o[i] # o[j]
        /\ \A i, j \in 1..Cardinality(rows) :
              i < j => \A k \in 1..Len(PathOrder) :
                  FileOf(o[j]) = PathOrder[k] =>
                      \E m \in 1..k : FileOf(o[i]) = PathOrder[m]}

\* depth = max(1, min(depth, 5))
ClampDepth(depth) ==
    LET low == IF depth < 5 THEN depth ELSE 5
    IN  IF low > 1 THEN low ELSE 1

RECURSIVE AddRootNodes(_, _)
\* the loop over root_chunks: every chunk that defines the function becomes
\* a node of depth 0
AddRootNodes(root_chunks, st) ==
    IF root_chunks = <<>> THEN st
    ELSE LET chunk_id == Head(root_chunks).id
         IN  AddRootNodes(Tail(root_chunks),
                 IF chunk_id \notin st.seen_node_ids
                 THEN [st EXCEPT
                          !.seen_node_ids = @ \cup {chunk_id},
                          !.nodes = Append(@, [id |-> chunk_id,
                                               depth |-> 0])]
                 ELSE st)

RECURSIVE TraverseRows(_, _, _, _, _)
\* the loop over the rows of one level: the edge is added when it is new,
\* the chunk on the far side becomes a node when it is new and there are
\* fewer than limit nodes
TraverseRows(rows, st, side, limit, current_depth) ==
    IF rows = <<>> THEN st
    ELSE LET row == Head(rows)
             far == IF side = "callers" THEN row.src ELSE row.tgt
             edge_key == <<row.src, row.tgt>>
             st1 == IF edge_key \notin st.seen_edge_keys
                    THEN [st EXCEPT
                             !.seen_edge_keys = @ \cup {edge_key},
                             !.edges = Append(@, [source_id |-> row.src,
                                                  target_id |-> row.tgt,
                                                  callee_name |-> row.meta])]
                    ELSE st
             st2 == IF far \notin st1.seen_node_ids /\ Len(st1.nodes) < limit
                    THEN [st1 EXCEPT
                             !.seen_node_ids = @ \cup {far},
                             !.nodes = Append(@, [id |-> far,
                                                  depth |-> current_depth]),
                             !.next_level_ids = Append(@, far)]
                    ELSE st1
         IN  TraverseRows(Tail(rows), st2, side, limit, current_depth)

\* the rows of the level query of a direction
LevelRows(rels, ch, rb, side, current_level_ids) ==
    {r \in rels :
        /\ r.type = "calls"
        /\ (IF side = "callers" THEN r.tgt ELSE r.src)
               \in Range(current_level_ids)
        /\ \E c \in ch : /\ c.id = (IF side = "callers" THEN r.src
                                    ELSE r.tgt)
                         /\ c.rb = rb}

\* a store with chunks and calls relationships, and no query made yet
CallgraphInit ==
    /\ wc = [p \in RealPaths |-> "none"]
    /\ chunks \in ChunkTables
    /\ code_embeddings = {}
    /\ files = {}
    /\ relationships \in CallTables
    /\ file_imports = {}
    /\ cache = {}
    /\ nextId = MaxQueryChunks + 1
    /\ last = NoRun
    /\ input = NoInput
    /\ pc = "idle"
    /\ start = 0
    /\ out = <<>>

\* GET /callgraph/{function}, up to the root nodes: without a chunk that
\* defines the function the answer is empty
CallgraphRoots ==
    /\ pc = "idle"
    /\ \E rb \in RepoBranches, function \in {"foo"},
          direction \in {"callers", "callees", "both"},
          depth \in 0..MaxDepth, limit \in 1..MaxLimit :
        \E root_chunks \in RowOrders({c \in ChunksOf(chunks, rb) :
                                        function \in SymbolNames(c.var)}) :
          LET st == AddRootNodes(root_chunks,
                        [nodes |-> <<>>, edges |-> <<>>,
                         seen_node_ids |-> {}, seen_edge_keys |-> {},
                         next_level_ids |-> <<>>])
              root_chunk_ids == Map(LAMBDA c : c.id, root_chunks)
          IN  /\ input' = [mode |-> "callgraph", rb |-> rb,
                           function |-> function, direction |-> direction,
                           depth |-> ClampDepth(depth), limit |-> limit,
                           root_chunk_ids |-> root_chunk_ids]
              /\ out' = [st EXCEPT !.next_level_ids = root_chunk_ids]
              /\ start' = 1
              /\ pc' = IF root_chunks = <<>> THEN "answered"
                       ELSE IF direction \in {"callers", "both"}
                       THEN "callers" ELSE "callees"
    /\ UNCHANGED <<wc, tables, last>>

\* the traversal of a direction goes on: "for current_depth in range(1,
\* depth + 1)" has a level left, and neither break applies
LevelLeft ==
    /\ start <= input.depth
    /\ out.next_level_ids # <<>>
    /\ Len(out.nodes) < input.limit

\* one level of the traversal in the direction pc names
CallgraphLevel ==
    /\ pc \in {"callers", "callees"}
    /\ LevelLeft
    /\ \E rows \in OrderedByFile(
                       LevelRows(relationships, chunks, input.rb, pc,
                                 out.next_level_ids),
                       LAMBDA r : ChunkById(chunks, IF pc = "callers"
                                                    THEN r.src
                                                    ELSE r.tgt).file) :
        out' = TraverseRows(rows, [out EXCEPT !.next_level_ids = <<>>],
                            pc, input.limit, start)
    /\ start' = start + 1
    /\ UNCHANGED <<wc, tables, last, input, pc>>

\* the callers have been traversed and the callees are asked for too: the
\* traversal starts again from the root chunks
CallgraphTurn ==
    /\ pc = "callers"
    /\ ~LevelLeft
    /\ input.direction = "both"
    /\ out' = [out EXCEPT !.next_level_ids = input.root_chunk_ids]
    /\ start' = 1
    /\ pc' = "callees"
    /\ UNCHANGED <<wc, tables, last, input>>

\* the traversals are over: the nodes and the edges are returned
CallgraphReturn ==
    /\ pc \in {"callers", "callees"}
    /\ ~LevelLeft
    /\ pc = "callers" => input.direction = "callers"
    /\ pc' = "answered"
    /\ UNCHANGED <<wc, tables, last, input, start, out>>

CallgraphNext ==
    \/ CallgraphRoots
    \/ CallgraphLevel
    \/ CallgraphTurn
    \/ CallgraphReturn

CallgraphSpec == CallgraphInit /\ [][CallgraphNext]_vars

\* ------------------------------------------------------------------------
\* Search ranking (hybrid.py, bm25.py)
\* ------------------------------------------------------------------------

RRF_K == 60

\* the lists of distinct chunk ids a search returns, best first
HitLists ==
    UNION {{s \in [1..n -> 1..MaxHits] :
               \A i, j \in 1..n : i # j => s[i] # s[j]} : n \in 0..MaxHits}

\* the rank result has in the list, 0 for None
RankIn(results, chunk_id) ==
    IF \E i \in 1..Len(results) : results[i] = chunk_id
    THEN CHOOSE i \in 1..Len(results) : results[i] = chunk_id
    ELSE 0

\* the keys of results_map in the order they were inserted: the vector
\* results, then the keyword results that are not among them
MergeOrder(vector_results, keyword_results) ==
    vector_results \o
    SelectSeq(keyword_results, LAMBDA c : RankIn(vector_results, c) = 0)

\* calculate_rrf_score, as the fraction num / den: weight / (k + rank), or
\* 0 when the result is not in the ranking
calculate_rrf_score(rank, weight, k) ==
    IF rank = 0 THEN [num |-> 0, den |-> 1]
    ELSE [num |-> weight, den |-> k + rank]

\* the sum of two fractions
FracSum(a, b) == [num |-> a.num * b.den + b.num * a.den,
                  den |-> a.den * b.den]

FracLess(a, b) == a.num * b.den < b.num * a.den

FracEq(a, b) == a.num * b.den = b.num * a.den

\* sorted(..., key=rrf_score, reverse=True): by descending score, matches
\* of equal score in the order of the list
SortByScoreDesc(seq) ==
    LET n == Len(seq)
        rank(i) == 1 + Cardinality({j \in 1..n :
                         \/ FracLess(seq[i].rrf_score, seq[j].rrf_score)
                         \/ /\ FracEq(seq[i].rrf_score, seq[j].rrf_score)
                            /\ j < i})
    IN  [p \in 1..n |-> seq[CHOOSE i \in 1..n : rank(i) = p]]

\* combine_results: the weights have one denominator after the
\* normalisation of HybridSearchConfig, which the order does not depend on
combine_results(vector_results, keyword_results, vector_weight, keyword_weight, limit) ==
    LET matches ==
            Map(LAMBDA c :
                    [chunk_id |-> c,
                     vector_rank |-> RankIn(vector_results, c),
                     keyword_rank |-> RankIn(keyword_results, c),
                     rrf_score |->
                         FracSum(calculate_rrf_score(
                                     RankIn(vector_results, c),
                                     vector_weight, RRF_K),
                                 calculate_rrf_score(
                                     RankIn(keyword_results, c),
                                     keyword_weight, RRF_K))],
                MergeOrder(vector_results, keyword_results))
        sorted_results == SortByScoreDesc(matches)
    IN  SubSeq(sorted_results, 1,
               IF limit < Len(sorted_results) THEN limit
               ELSE Len(sorted_results))

\* the words identifiers are made of
Words == {"get", "user"}

\* identifiers: words written in camelCase or in snake_case
Identifiers ==
    {[style |-> st, parts |-> p] :
        st \in {"camel", "snake"},
        p \in UNION {[1..n -> Words] : n \in 1..2}}

RECURSIVE Join(_, _)
\* sep.join(parts)
Join(parts, sep) ==
    IF Len(parts) = 0 THEN ""
    ELSE IF Len(parts) = 1 THEN parts[1]
    ELSE parts[1] \o sep \o Join(Tail(parts), sep)

\* identifier.lower()
Lower(identifier) ==
    IF identifier.style = "snake" THEN Join(identifier.parts, "_")
    ELSE Join(identifier.parts, "")

\* normalize_identifier, as the set of the variations: the lowercased
\* identifier and, when it has several words, the words, their snake_case
\* form and their camelCase form lowercased
normalize_identifier(identifier) ==
    {Lower(identifier)}
    \cup (IF Len(identifier.parts) > 1
          THEN Range(identifier.parts)
               \cup {IF identifier.style = "camel"
                     THEN Join(identifier.parts, "_")
                     ELSE Join(identifier.parts, "")}
          ELSE {})

RECURSIVE FirstMatch(_, _, _)
\* the loop of calculate_exact_match_boost over symbol_names: the first
\* entry that matches decides, in tenths of the multiplier
FirstMatch(query, symbol_names, exact_match_multiplier) ==
    IF symbol_names = <<>> THEN 10
    ELSE IF Lower(query) = Lower(Head(symbol_names))
    THEN exact_match_multiplier * 10
    ELSE IF normalize_identifier(query)
                \cap normalize_identifier(Head(symbol_names)) # {}
    THEN exact_match_multiplier * 7
    ELSE FirstMatch(query, Tail(symbol_names), exact_match_multiplier)

\* calculate_exact_match_boost, in tenths
calculate_exact_match_boost(query, symbol_names, exact_match_multiplier) ==
    FirstMatch(query, symbol_names, exact_match_multiplier)

\* a search has its rankings, or a query and a chunk's symbol_names
SearchInit ==
    /\ EmptyStore
    /\ \/ \E v \in HitLists, kw \in HitLists,
             vw \in 1..MaxWeight, kww \in 1..MaxWeight, limit \in 1..MaxHits :
            input = [mode |-> "hybrid", vector_results |-> v,
                     keyword_results |-> kw, vector_weight |-> vw,
                     keyword_weight |-> kww, limit |-> limit]
       \/ \E query \in Identifiers, boost \in 1..MaxBoost :
            \E symbol_names \in UNION {[1..n -> Identifiers] :
                                         n \in 0..MaxSymbols} :
                input = [mode |-> "boost", query |-> query,
                         symbol_names |-> symbol_names,
                         exact_match_multiplier |-> boost]
    /\ pc = "called"
    /\ start = 0
    /\ out = <<>>

\* hybrid_search combines the two rankings
CombineResults ==
    /\ pc = "called"
    /\ input.mode = "hybrid"
    /\ out' = combine_results(input.vector_results, input.keyword_results,
                              input.vector_weight, input.keyword_weight,
                              input.limit)
    /\ pc' = "answered"
    /\ UNCHANGED <<wc, tables, last, input, start>>

\* keyword_search computes the multiplier of a chunk
ExactMatchBoost ==
    /\ pc = "called"
    /\ input.mode = "boost"
    /\ out' = calculate_exact_match_boost(input.query, input.symbol_names,
                                          input.exact_match_multiplier)
    /\ pc' = "answered"
    /\ UNCHANGED <<wc, tables, last, input, start>>

SearchNext ==
    \/ CombineResults
    \/ ExactMatchBoost

SearchSpec == SearchInit /\ [][SearchNext]_vars

\* ------------------------------------------------------------------------
\* The call-graph builder on a store of chunks with several symbols
\* ------------------------------------------------------------------------

\* the contents the chunks table may have for a (repo_id, branch)
StoredChunkTables ==
    {{[id |-> i, rb |-> "r1", file |-> t[i][1], var |-> t[i][2]] :
         i \in 1..MaxStoredChunks} :
       t \in [1..MaxStoredChunks -> {"a.ts", "b.ts"} \X StoredContents]}

\* a store whose chunks have been written, and no graph built yet
CallBuildInit ==
    /\ wc = [p \in RealPaths |-> "none"]
    /\ chunks \in StoredChunkTables
    /\ code_embeddings = {}
    /\ files = {}
    /\ relationships = {}
    /\ file_imports = {}
    /\ cache = {}
    /\ nextId = MaxStoredChunks + 1
    /\ last = NoRun
    /\ input = NoInput
    /\ pc = "idle"
    /\ start = 0
    /\ out = <<>>

CallBuildNext ==
    \/ BuildCallGraph
    \/ RunExits

CallBuildSpec == CallBuildInit /\ [][CallBuildNext]_vars

\* ------------------------------------------------------------------------
\* The embedding cache under two writers (indexer.py, incremental.py,
\* cocoindex_flow.py)
\* ------------------------------------------------------------------------

\* the stores that run at the same time, each on a connection of its own
Writers == {"w1", "w2"}

\* the content hashes and the vectors of the stores; the model name is the
\* one of EMBEDDING_MODEL, so that content_hash is the key of a row
Hashes == {"h1", "h2"}

Vectors == {"v1", "v2"}

CacheRow(content_hash, embedding, hit_count) ==
    [content_hash |-> content_hash, embedding |-> embedding,
     hit_count |-> hit_count]

HasRow(c, content_hash) == \E r \in c : r.content_hash = content_hash

\* writer w has executed its INSERT on the key and not committed: it holds
\* the lock of the row, or of the index entry of the row it inserted
HoldsKey(w, content_hash) ==
    /\ pc[w] \in {"inserted", "updated"}
    /\ input.stores[w].content_hash = content_hash

\* INSERT INTO embedding_cache ... ON CONFLICT (content_hash, model_name)
\* DO UPDATE SET last_used_at = NOW(), hit_count = hit_count + 1: the
\* conflict branch leaves the embedding column as it is
InsertOnConflict(c, content_hash, embedding, branch) ==
    IF branch = "inserted"
    THEN c \cup {CacheRow(content_hash, embedding, 0)}
    ELSE {IF r.content_hash = content_hash
          THEN [r EXCEPT !.hit_count = @ + 1] ELSE r : r \in c}

CacheInit ==
    /\ wc = [p \in RealPaths |-> "none"]
    /\ chunks = {}
    /\ code_embeddings = {}
    /\ files = {}
    /\ relationships = {}
    /\ file_imports = {}
    /\ \/ cache = {}
       \/ \E h \in Hashes, v \in Vectors : cache = {CacheRow(h, v, 0)}
    /\ nextId = 1
    /\ last = NoRun
    /\ \E s \in [Writers -> [content_hash : Hashes, embedding : Vectors]] :
        input = [mode |-> "store", stores |-> s]
    /\ pc = [w \in Writers |-> "called"]
    /\ start = 0
    /\ out = <<>>

\* cur.execute of the INSERT: it waits while another transaction holds the
\* key, then inserts the row, or takes the conflict branch on the committed
\* row
StoreExecute(w) ==
    /\ pc[w] = "called"
    /\ ~\E o \in Writers \ {w} : HoldsKey(o, input.stores[w].content_hash)
    /\ pc' = [pc EXCEPT ![w] = IF HasRow(cache, input.stores[w].content_hash)
                               THEN "updated" ELSE "inserted"]
    /\ UNCHANGED <<wc, tables, last, input, start, out>>

\* conn.commit() of the store; out lists the stores in the order of their
\* commits
StoreCommit(w) ==
    /\ pc[w] \in {"inserted", "updated"}
    /\ cache' = InsertOnConflict(cache, input.stores[w].content_hash,
                                 input.stores[w].embedding, pc[w])
    /\ pc' = [pc EXCEPT ![w] = "stored"]
    /\ out' = Append(out, w)
    /\ UNCHANGED <<wc, chunks, code_embeddings, files, relationships,
                   file_imports, nextId, last, input, start>>

CacheNext ==
    \E w \in Writers :
        \/ StoreExecute(w)
        \/ StoreCommit(w)

CacheSpec == CacheInit /\ [][CacheNext]_vars

\* ------------------------------------------------------------------------
\* The same change set applied again
\* ------------------------------------------------------------------------

\* the incremental indexer is started again with the change set of the run
\* that has just ended, the working copy being as that run read it
IncrementalIndexRepeat ==
    /\ last.op = "incremental"
    /\ last.fault = NoFault /\ ~last.cacheFail
    /\ run_incremental_indexing(last.rb, last.source, last.changes,
                                NoFault, FALSE)

RepeatNext ==
    \/ EditFile
    \/ RunExits
    \/ FullIndex
    \/ IncrementalIndex
    \/ IncrementalIndexRepeat

RepeatSpec == Init /\ [][RepeatNext]_vars

\* ------------------------------------------------------------------------
\* Two (repo_id, branch) pairs in one store
\* ------------------------------------------------------------------------

\* a second repository, or branch, whose checkout has the same relative
\* paths: the indexers are run on the working copy under either identity
TwoRepoBranches == RepoBranches \cup {"r2"}

FullIndexEither ==
    /\ ~Running
    /\ \E rb \in TwoRepoBranches : index_repository(rb, NoFault, FALSE)

IncrementalIndexEither ==
    /\ ~Running
    /\ \E rb \in TwoRepoBranches :
        \E raw \in SeqsUpTo(EnvEntries, MaxChanges) :
            /\ Len(raw) > 0
            /\ run_incremental_indexing(rb, "env", raw, NoFault, FALSE)

TwoRepoNext ==
    \/ EditFile
    \/ RunExits
    \/ FullIndexEither
    \/ IncrementalIndexEither

TwoRepoSpec == Init /\ [][TwoRepoNext]_vars

\* ------------------------------------------------------------------------
\* The relationship export and the call graph builder on stored chunks
\* ------------------------------------------------------------------------

\* the chunks tables the builders read: MaxRelChunks chunks of one
\* (repo, branch), of any content
RelChunkTables ==
    {{[id |-> i, rb |-> "r1", file |-> t[i][1], var |-> t[i][2]] :
         i \in 1..MaxRelChunks} :
       t \in [1..MaxRelChunks ->
                 {"a.ts", "b.ts"} \X (StoredContents \cup ImportingContents)]}

\* a store whose chunks have been written, and no relationship exported yet
ExtractInit ==
    /\ wc = [p \in RealPaths |-> "none"]
    /\ chunks \in RelChunkTables
    /\ code_embeddings = {}
    /\ files = {}
    /\ relationships = {}
    /\ file_imports = {}
    /\ cache = {}
    /\ nextId = MaxRelChunks + 1
    /\ last = NoRun
    /\ input = NoInput
    /\ pc = "idle"
    /\ start = 0
    /\ out = <<>>

ExtractNext ==
    \/ ExportRelationships
    \/ BuildCallGraph
    \/ RunExits

ExtractSpec == ExtractInit /\ [][ExtractNext]_vars

\* ------------------------------------------------------------------------
\* What a finished run says about itself
\* ------------------------------------------------------------------------

IndexRun == last.op \in {"full", "incremental"}

\* the indexable paths the change list of the run gives one of the statuses
ListedAs(sts) ==
    {last.changes[i].p1 : i \in {j \in 1..Len(last.changes) :
                                    last.changes[j].st \in sts}}
    \cap IndexablePaths

\* the renames <<old, new>> the change list of the run reports, in the
\* format of its source
ListedRenames ==
    {on \in Renames : \E i \in 1..Len(last.changes) :
        /\ last.changes[i].st = "R"
        /\ IF last.source = "env"
           THEN last.changes[i].p1 = Arrow[on]
           ELSE last.changes[i].p1 = on[1] /\ last.changes[i].p2 = on[2]}

\* the ids the chunks of file f had when the run started
PreRunIds(f) ==
    {c.id : c \in {x \in last.before.chunks :
                      x.rb = last.rb /\ x.file = f}}

\* the files the run has to read and chunk
FilesOfRun ==
    IF last.op = "full" THEN Range(find_files(wc))
    ELSE {f \in ListedAs({"A", "M", ""}) : Exists(wc, f)}

\* the run wrote a chunk holding the present content of file f
WrittenFor(f) ==
    \E c \in chunks : /\ c.id \in last.written
                      /\ c.rb = last.rb
                      /\ c.file = f
                      /\ c.var = wc[f]

\* ------------------------------------------------------------------------
\* Properties
\* ------------------------------------------------------------------------

\* C1: after an incremental run, for every indexable file the change list
\* gives as modified (an entry without a status counts as modified) or
\* deleted, none of the chunks the file had before the run is still in the
\* chunks table, and no relationship has one of them as source or target.
C1_OldChunksRemoved ==
    last.op = "incremental" =>
        \A f \in ListedAs({"M", "", "D"}) : \A id \in PreRunIds(f) :
            /\ id \notin IdsOf(chunks)
            /\ \A r \in relationships : r.src # id /\ r.tgt # id

\* an incremental run over a file that had a chunk with a relationship
C1_Witness ==
    /\ last.op = "incremental"
    /\ \E f \in ListedAs({"M", "", "D"}) :
           \E r \in last.before.relationships :
               r.src \in PreRunIds(f) \/ r.tgt \in PreRunIds(f)

\* C2: in every state the runs reach, both endpoints of every relationships
\* row are ids of rows of the chunks table.
C2_EndpointsExist ==
    \A r \in relationships :
        r.src \in IdsOf(chunks) /\ r.tgt \in IdsOf(chunks)

\* an incremental run has deleted a chunk that had a relationship, or a
\* builder has stored edges
C2_Witness ==
    \/ /\ last.op = "incremental"
       /\ \E r \in last.before.relationships :
              r.src \notin IdsOf(chunks) \/ r.tgt \notin IdsOf(chunks)
    \/ /\ last.op \in {"export", "calls"}
       /\ relationships # {}
       /\ last.before.relationships = {}

\* C3: when a full-index run completes, the chunks of its (repo_id, branch)
\* are exactly the chunks this run wrote: no chunk of an earlier run, and no
\* relationship of such a chunk, is left.
C3_FullIndexReplaces ==
    (last.op = "full" /\ last.status = "success") =>
        /\ IdsOf(ChunksOf(chunks, last.rb)) = last.written
        /\ \A r \in relationships :
               \A c \in ChunksOf(last.before.chunks, last.rb) :
                   r.src # c.id /\ r.tgt # c.id

\* the table the run started from is the index of the present sources: one
\* chunk for each chunk a full run over the working copy yields
IndexOfSources(ch, rb) ==
    LET this == CollectChunks(find_files(wc), wc, NoFault)
    IN  /\ Cardinality(ChunksOf(ch, rb)) = Len(this)
        /\ {[file |-> c.file, var |-> c.var] : c \in ChunksOf(ch, rb)}
               = Range(this)

\* C4: a full-index run over the sources the table is already the index of
\* (the run before it was a full run, the sources have not changed) leaves
\* the same set of chunk ids, and two chunks rows of one (repo_id, branch,
\* file_path, location) never have different ids.
C4_StableChunkIds ==
    /\ (/\ last.op = "full"
        /\ last.fault = NoFault
        /\ IndexOfSources(last.before.chunks, last.rb))
           => IdsOf(ChunksOf(chunks, last.rb))
                  = IdsOf(ChunksOf(last.before.chunks, last.rb))
    /\ \A c, d \in chunks :
           (/\ c.rb = d.rb
            /\ c.file = d.file
            /\ Location(c.var) = Location(d.var)) => c.id = d.id

\* C5: an incremental run whose diff source reports no change leaves the
\* chunks table and the relationships table as they were.
C5_EmptyChangeListNoOp ==
    (last.op = "incremental" /\ last.changes = <<>>) =>
        /\ chunks = last.before.chunks
        /\ relationships = last.before.relationships

\* an incremental run with no change over a store with chunks
C5_Witness ==
    /\ last.op = "incremental"
    /\ last.changes = <<>>
    /\ last.status = "success"
    /\ ChunksOf(chunks, last.rb) # {}

\* C7: after a graph builder has run, the stored edges of its kind are
\* exactly the edges it computed from the chunks table, also when it
\* computed none: no edge of an earlier run is left.
C7_BuildersReplace ==
    /\ ("import" \in last.built) =>
           {r \in file_imports : r.rb = last.rb} = last.computed
    /\ ("calls" \in last.built) =>
           {r \in relationships :
               /\ r.type = "calls"
               /\ r.src \in IdsOf(ChunksOf(chunks, last.rb))}
               = last.computed
    /\ ("relationships" \in last.built) =>
           {r \in relationships :
               /\ r.type \in {"imports", "references"}
               /\ r.src \in IdsOf(ChunksOf(chunks, last.rb))}
               = last.computed

\* C8: in a full or an incremental run in which a file cannot be processed,
\* the run ends with success and every other file of the run has its chunks
\* written.
C8_FileFailureIsolated ==
    (IndexRun /\ last.fault.file # "none") =>
        /\ last.status = "success"
        /\ \A f \in FilesOfRun \ {last.fault.file} : WrittenFor(f)

\* C9: in a full or an incremental run in which the cache rejects every
\* write, the run ends with success and every file of the run has its
\* chunks written.
C9_CacheFailureTolerated ==
    (IndexRun /\ last.cacheFail) =>
        /\ last.status = "success"
        /\ \A f \in FilesOfRun : WrittenFor(f)

\* a run that wrote a chunk whose embedding the cache did not take
C9_Witness ==
    /\ IndexRun
    /\ last.cacheFail
    /\ \E c \in chunks : /\ c.id \in last.written
                         /\ compute_content_hash(c.var) \notin cache

\* C10: after an incremental run, for every rename old -> new of the change
\* list, in the format of either source, no chunk the old path had before
\* the run is left, and the new path, when the file exists, has its chunk
\* written.
C10_RenameIsDeletePlusAdd ==
    (last.op = "incremental" /\ last.status = "success") =>
        \A on \in ListedRenames :
            /\ \A id \in PreRunIds(on[1]) : id \notin IdsOf(chunks)
            /\ Exists(wc, on[2]) => WrittenFor(on[2])

\* the chunks of the call whose line range contains line L
Containing(L) ==
    {i \in 1..Len(out) : out[i].start_line <= L /\ L <= out[i].end_line}

NonBlankLines == (1..input.total) \ input.blank

\* the lines of the nested units that are emitted on their own
SeparatedLines ==
    UNION {UNION {c[1]..c[2] : c \in
                     {d \in input.units[i].children :
                         should_separate_nested(d, input.threshold)}} :
              i \in 1..Len(input.units)}

\* the lines on which one unit ends and the next one begins
SharedLines ==
    {input.units[i].end_line : i \in
        {j \in 1..(Len(input.units) - 1) :
            input.units[j].end_line = input.units[j + 1].start_line}}

C11_Level2ExcludesLevel1 ==
    (pc = "answered" /\ input.mode = "import_tree") =>
        \A f \in out.indirect_imports \cup out.indirect_importers :
            /\ f # input.file_path
            /\ f \notin out.direct_imports \cup out.direct_importers

\* C12: every cycle the circular-dependency detection reports has at most
\* max_cycle_length distinct files.
C12_CycleLengthBounded ==
    (pc = "answered" /\ input.mode = "cycles") =>
        \A i \in 1..Len(out) :
            Cardinality(Range(out[i].cycle)) <= input.max_cycle_length

\* C13: the answer to a call-graph query has at most limit nodes, whatever
\* the number of chunks that define the function and whichever direction.
C13_NodeLimit ==
    (pc = "answered" /\ input.mode = "callgraph") =>
        Len(out.nodes) <= input.limit

\* C14: in the fused results of a hybrid search, a result comes before
\* another only if its rrf score is higher, or the scores are equal and its
\* chunk id is lower.
C14_OrderByScoreThenId ==
    (pc = "answered" /\ input.mode = "hybrid") =>
        \A i, j \in 1..Len(out) :
            i < j =>
                \/ FracLess(out[j].rrf_score, out[i].rrf_score)
                \/ /\ FracEq(out[i].rrf_score, out[j].rrf_score)
                   /\ out[i].chunk_id < out[j].chunk_id

\* the multiplier the contract gives, in tenths: boost when an entry equals
\* the query case-insensitively, else boost x 0.7 when an entry shares a
\* variation with it, else 1
ContractBoost ==
    IF \E i \in 1..Len(input.symbol_names) :
           Lower(input.symbol_names[i]) = Lower(input.query)
    THEN input.exact_match_multiplier * 10
    ELSE IF \E i \in 1..Len(input.symbol_names) :
                normalize_identifier(input.symbol_names[i])
                    \cap normalize_identifier(input.query) # {}
    THEN input.exact_match_multiplier * 7
    ELSE 10

\* C15: the multiplier of a chunk is boost when an entry of symbol_names
\* equals the query case-insensitively, else boost x 0.7 when an entry
\* matches through a variation, else 1, whatever the order of the entries.
C15_BoostByBestMatch ==
    (pc = "answered" /\ input.mode = "boost") => out = ContractBoost

\* C16: after the call-graph builder has run, for every edge it emitted
\* (one per source, target and callee_name) the stored calls relationship
\* between the two chunks has the callee_name of the edge in its metadata.
C16_CalleeNameStored ==
    last.op = "calls" =>
        \A e \in last.computed :
            \E r \in relationships : /\ r.src = e.src
                                     /\ r.tgt = e.tgt
                                     /\ r.type = "calls"
                                     /\ r.meta = e.meta

\* C17: a run in which the embedding call of a batch fails goes on to its
\* end: it ends with success, and none of the chunks it has written is of
\* the batch, that is, every chunk it has written has its vector in the
\* cache.
C17_EmbedFailureSkipsBatch ==
    (IndexRun /\ last.fault = EmbedFault) =>
        /\ last.status = "success"
        /\ \A c \in chunks :
               c.id \in last.written => compute_content_hash(c.var) \in cache

\* C18: after an incremental run, however it ended, no modified file that
\* had chunks when the run started and still exists is left without a chunk:
\* its old chunks are not deleted unless its new ones are there.
C18_DeleteInsertAtomic ==
    last.op = "incremental" =>
        \A f \in ListedAs({"M"}) :
            (Exists(wc, f) /\ PreRunIds(f) # {}) =>
                \E c \in chunks : c.rb = last.rb /\ c.file = f

\* C19: a full index that has written its chunks has run the import graph
\* builder, the relationship builder and the call graph builder.
C19_FullIndexRunsBuilders ==
    (last.op = "full" /\ last.status = "success" /\ last.written # {}) =>
        {"import", "relationships", "calls"} \subseteq last.built

\* C20: when the two writers have stored a vector for the same content hash
\* (and model), both stores have returned without a failure and the cache
\* row of the hash holds the vector of the store that committed last.
C20_LastCommitWins ==
    (/\ input.mode = "store"
     /\ \A w \in Writers : pc[w] = "stored"
     /\ \A w, o \in Writers :
            input.stores[w].content_hash = input.stores[o].content_hash) =>
        \E r \in cache :
            /\ r.content_hash = input.stores[out[Len(out)]].content_hash
            /\ r.embedding = input.stores[out[Len(out)]].embedding

\* C21: on every iteration of the loop of chunk_with_fallback the start of
\* the window is greater than it was.
C21_StartIncreases ==
    [][(pc = "loop" /\ pc' = "loop" /\ out' # out) => start' > start]_vars

\* the number of chunks of file f of (repo, branch) rb with content v
ChunkCount(ch, rb, f, v) ==
    Cardinality({c \in ch : c.rb = rb /\ c.file = f /\ c.var = v})

\* C22: the second of two runs of the same change set over the same working
\* copy leaves every file with the chunks the first run left it with, each
\* as many times.
C22_RepeatedChangeSetConverges ==
    [][(/\ last.op = "incremental"
        /\ last'.op = "incremental"
        /\ last'.rb = last.rb
        /\ last'.source = last.source
        /\ last'.changes = last.changes
        /\ wc' = wc) =>
            \A f \in RealPaths, v \in StoredContents :
                ChunkCount(chunks', last.rb, f, v)
                    = ChunkCount(chunks, last.rb, f, v)]_vars

\* the rows of a table that belong to another (repo, branch) than rb
RowsOfOthers(rows, rb) == {r \in rows : r.rb # rb}

\* C23: a full or an incremental run of a (repo, branch) leaves the files
\* rows, the chunks rows and the relationships of the chunks of every other
\* (repo, branch) as they were.
C23_OtherRepoUntouched ==
    [][(IndexRun' /\ last' # last) =>
          /\ RowsOfOthers(files', last'.rb) = RowsOfOthers(files, last'.rb)
          /\ RowsOfOthers(chunks', last'.rb) = RowsOfOthers(chunks, last'.rb)
          /\ \A r \in relationships :
                (\E c \in RowsOfOthers(chunks, last'.rb) :
                     c.id \in {r.src, r.tgt}) => r \in relationships']_vars

\* the relationships of the given types that start at a chunk of the
\* (repo, branch) of the run, as they were when the run started
StoredBefore(types) ==
    {r \in last.before.relationships :
        /\ r.type \in types
        /\ \E c \in last.before.chunks : c.rb = last.rb /\ c.id = r.src}

\* C24: the relationship export leaves every stored calls relationship of
\* its (repo, branch) in the table as it was, and the call graph builder
\* leaves every stored imports and references relationship as it was.
C24_BuildersKeepOtherTypes ==
    /\ last.op = "export" => StoredBefore({"calls"}) \subseteq relationships
    /\ last.op = "calls" =>
           StoredBefore({"imports", "references"}) \subseteq relationships

\* C25: in the answer of a call graph query the two ends of every edge are
\* among the nodes.
C25_EdgeEndsAreNodes ==
    (pc = "answered" /\ input.mode = "callgraph") =>
        \A i \in 1..Len(out.edges) :
            {out.edges[i].source_id, out.edges[i].target_id}
                \subseteq {out.nodes[j].id : j \in 1..Len(out.nodes)}

\* the files of S are the files of a simple directed cycle of the rows
IsSimpleCycle(S, rows) ==
    \E p \in [1..Cardinality(S) -> S] :
        /\ \A i, j \in 1..Cardinality(S) : i # j => p[i] # p[j]
        /\ \A i \in 1..Cardinality(S) :
              \E r \in rows :
                  /\ r.src = p[i]
                  /\ r.tgt = p[IF i = Cardinality(S) THEN 1 ELSE i + 1]

\* C26: for every simple directed cycle of the import graph with at most
\* max_cycle_length files, the answer of the detection has a cycle with
\* the same set of files.
C26_CyclesComplete ==
    (pc = "answered" /\ input.mode = "cycles") =>
        \A S \in (SUBSET QueryFiles) \ {{}} :
            (/\ Cardinality(S) <= input.max_cycle_length
             /\ IsSimpleCycle(S, {r \in file_imports : r.rb = input.rb})) =>
                \E i \in 1..Len(out) : Range(out[i].cycle) = S

\* the chunks of the run's (repo, branch), other than the caller, that
\* declare the callee name of edge e
Candidates(e) ==
    {c \in ChunksOf(chunks, last.rb) :
        e.meta \in SymbolNames(c.var) /\ c.id # e.src}

\* the candidates in the file of the caller
SameFileCandidates(e) ==
    {c \in Candidates(e) : c.file = ChunkById(chunks, e.src).file}

\* C27: the target of every call edge the builder emitted is a candidate of
\* the caller's file when there is one, and otherwise the candidate with
\* the smallest chunk id, whatever the order the chunks were loaded in.
C27_TargetChoiceDeterministic ==
    last.op = "calls" =>
        \A e \in last.computed :
            IF SameFileCandidates(e) # {}
            THEN e.tgt \in IdsOf(SameFileCandidates(e))
            ELSE \A c \in Candidates(e) : e.tgt <= c.id

\* C28: among the relationships an export run has extracted, no references
\* edge goes from a chunk to a chunk an imports edge goes between in the
\* same direction.
C28_NoReferenceOverImport ==
    last.op = "export" =>
        \A e \in last.computed :
            e.type = "references" =>
                ~\E i \in last.computed : /\ i.type = "imports"
                                          /\ i.src = e.src
                                          /\ i.tgt = e.tgt

\* C29: in the chunks of a file, a definition nested in a unit, function
\* or class, has a chunk of its own if and only if it has at least
\* threshold lines.
C29_NestedSeparatedAtThreshold ==
    (pc = "returned" /\ input.mode = "ast") =>
        \A i \in 1..Len(input.units) :
            \A c \in input.units[i].nested :
                (\E k \in 1..Len(out) : out[k] = Chunk(c[1], c[2], "nested"))
                    <=> line_count(c) >= input.threshold

====
